---- MODULE Spec2Model ----
(***************************************************************************)
(* Model of yolox/models/darknet.py: the two backbone builders Darknet and *)
(* CSPDarknet (their constructors, which declare the block graph) and      *)
(* their forward methods (which thread a tensor through the five stages    *)
(* and filter the recorded outputs).  Tensors are modelled by their shape  *)
(* [c, h, w]; blocks by the arguments the constructors pass to them.       *)
(* Multipliers are rationals in thousandths (1000 stands for 1.0).         *)
(***************************************************************************)
EXTENDS Integers, Sequences, FiniteSets, TLC

VARIABLES cls, status, args, out_features, stages, pc, input, x, outputs, result

vars == <<cls, status, args, out_features, stages, pc, input, x, outputs, result>>

(* ---------------------------- bounds ----------------------------------- *)

\* longest requested-output tuple enumerated (the default tuple is added)
MaxReq == 2
\* Darknet in_channels ranges over 1..MaxIn, and 3 (RGB)
MaxIn == 1
\* Darknet stem_out_channels ranges over 1..MaxStem, and 32 (the default)
MaxStem == 2
\* width multipliers swept: 1/1000 .. MaxWidthMilli/1000
MaxWidthMilli == 2000
\* depth multipliers swept: 0 .. MaxDepthMilli/1000
MaxDepthMilli == 2000

(* ---------------------------- vocabulary ------------------------------- *)

StageNames == {"stem", "dark2", "dark3", "dark4", "dark5"}

\* names a caller may request: the five stages and one that is no stage
RequestNames == StageNames \cup {"fpn"}

DefaultOutFeatures == <<"dark3", "dark4", "dark5">>

RECURSIVE TuplesUpTo(_)
TuplesUpTo(n) ==
    IF n = 0 THEN {<<>>}
    ELSE LET shorter == TuplesUpTo(n - 1)
         IN shorter \cup {Append(t, e) : t \in {u \in shorter : Len(u) = n - 1},
                                          e \in RequestNames}

OutFeatureChoices == TuplesUpTo(MaxReq) \cup {DefaultOutFeatures}

DepthChoices == {21, 53, 40}
InChannelChoices == (1..MaxIn) \cup {3}
StemChoices == (1..MaxStem) \cup {32}
WidthChoices == {375, 1000}
DepthMultChoices == {330, 1000}
ActChoices == {"silu", "lrelu"}
InputSizes == {<<640, 640>>, <<64, 32>>}

Max(a, b) == IF a >= b THEN a ELSE b

(* ---------------------------- blocks ----------------------------------- *)
(* The five block variants of network_blocks, as the record of what the    *)
(* call site declares: channel counts, kernel size, stride, repeat count.  *)

Block(kind, cin, cout, ksize, stride, n, shortcut, depthwise, act) ==
    [kind |-> kind, cin |-> cin, cout |-> cout, ksize |-> ksize,
     stride |-> stride, n |-> n, shortcut |-> shortcut,
     depthwise |-> depthwise, act |-> act]

BaseConv(cin, cout, ksize, stride, act) ==
    Block("BaseConv", cin, cout, ksize, stride, 0, FALSE, FALSE, act)

\* a residual layer keeps its channel count
ResLayer(c) == Block("ResLayer", c, c, 3, 1, 0, TRUE, FALSE, "lrelu")

CSPLayer(cin, cout, n, shortcut, depthwise, act) ==
    Block("CSPLayer", cin, cout, 1, 1, n, shortcut, depthwise, act)

Focus(cin, cout, ksize, act) ==
    Block("Focus", cin, cout, ksize, 1, 0, FALSE, FALSE, act)

SPPBottleneck(cin, cout, act) ==
    Block("SPPBottleneck", cin, cout, 1, 1, 0, FALSE, FALSE, act)

RECURSIVE Repeat(_, _)
Repeat(b, n) == IF n <= 0 THEN <<>> ELSE <<b>> \o Repeat(b, n - 1)

(* ---------------------------- tensors ---------------------------------- *)

NoTensor == [c |-> 0, h |-> 0, w |-> 0]
ShapeError == [c |-> -1, h |-> -1, w |-> -1]

\* Focus and a stride-2 convolution halve the spatial size; every block
\* outputs its declared channel count; a tensor whose channel count is not
\* the block's declared input count is rejected by the numeric engine.
ApplyBlock(b, t) ==
    IF t = ShapeError \/ t.c # b.cin THEN ShapeError
    ELSE IF b.kind = "Focus" \/ b.stride = 2
         THEN [c |-> b.cout, h |-> t.h \div 2, w |-> t.w \div 2]
         ELSE [c |-> b.cout, h |-> t.h, w |-> t.w]

\* nn.Sequential: the blocks in order
RECURSIVE ApplySequential(_, _)
ApplySequential(blocks, t) ==
    IF blocks = <<>> THEN t
    ELSE ApplySequential(Tail(blocks), ApplyBlock(Head(blocks), t))

(* ---------------------------- Darknet.__init__ ------------------------- *)

NoStages == [s \in StageNames |-> <<>>]

\* truthiness of a tuple, as `assert out_features` tests it
Truthy(t) == Len(t) > 0

\* mutant: the two rows of the table exchanged
depth2blocks_swapped == (21 :> <<2, 8, 8, 4>>) @@ (53 :> <<1, 2, 2, 1>>)

depth2blocks == (21 :> <<1, 2, 2, 1>>) @@ (53 :> <<2, 8, 8, 4>>)

make_group_layer(in_channels, num_blocks, stride) ==
    <<BaseConv(in_channels, in_channels * 2, 3, stride, "lrelu")>>
        \o Repeat(ResLayer(in_channels * 2), num_blocks)

\* mutant: the pooling block declared with its two channel counts exchanged
make_spp_block_miswired(filters_list, in_filters) ==
    << BaseConv(in_filters, filters_list[1], 1, 1, "lrelu"),
       BaseConv(filters_list[1], filters_list[2], 3, 1, "lrelu"),
       SPPBottleneck(filters_list[1], filters_list[2], "lrelu"),
       BaseConv(filters_list[1], filters_list[2], 3, 1, "lrelu"),
       BaseConv(filters_list[2], filters_list[1], 1, 1, "lrelu") >>

make_spp_block(filters_list, in_filters) ==
    << BaseConv(in_filters, filters_list[1], 1, 1, "lrelu"),
       BaseConv(filters_list[1], filters_list[2], 3, 1, "lrelu"),
       SPPBottleneck(filters_list[2], filters_list[1], "lrelu"),
       BaseConv(filters_list[1], filters_list[2], 3, 1, "lrelu"),
       BaseConv(filters_list[2], filters_list[1], 1, 1, "lrelu") >>

Darknet_stem(in_channels, stem_out_channels) ==
    <<BaseConv(in_channels, stem_out_channels, 3, 1, "lrelu")>>
        \o make_group_layer(stem_out_channels, 1, 2)

\* mutant: `in_channels *= 2` forgotten between dark3 and dark4
Darknet_dark_nodouble(in_channels, num_blocks) ==
    LET c2 == in_channels
        c3 == c2 * 2
        c4 == c3
        c5 == c4 * 2
    IN [dark2 |-> make_group_layer(c2, num_blocks[1], 2),
        dark3 |-> make_group_layer(c3, num_blocks[2], 2),
        dark4 |-> make_group_layer(c4, num_blocks[3], 2),
        dark5 |-> make_group_layer(c5, num_blocks[4], 2)
                    \o make_spp_block(<<c5, c5 * 2>>, c5 * 2)]

\* the stages dark2..dark5, given in_channels = stem_out_channels * 2 and
\* the four repeat counts
Darknet_dark(in_channels, num_blocks) ==
    LET c2 == in_channels
        c3 == c2 * 2
        c4 == c3 * 2
        c5 == c4 * 2
    IN [dark2 |-> make_group_layer(c2, num_blocks[1], 2),
        dark3 |-> make_group_layer(c3, num_blocks[2], 2),
        dark4 |-> make_group_layer(c4, num_blocks[3], 2),
        dark5 |-> make_group_layer(c5, num_blocks[4], 2)
                    \o make_spp_block(<<c5, c5 * 2>>, c5 * 2)]

\* mutant: the stem built before out_features is checked
Darknet_init_stem_first(depth, in_channels, stem_out_channels, ofs) ==
    LET stem == Darknet_stem(in_channels, stem_out_channels)
        onlyStem == [s \in StageNames |-> IF s = "stem" THEN stem ELSE <<>>]
    IN IF ~Truthy(ofs)
       THEN [status |-> "failed", out_features |-> <<>>, stages |-> onlyStem]
       ELSE IF ~(depth = 21 \/ depth = 53)
       THEN [status |-> "failed", out_features |-> ofs, stages |-> onlyStem]
       ELSE LET d == Darknet_dark(stem_out_channels * 2, depth2blocks[depth])
            IN [status |-> "built", out_features |-> ofs,
                stages |-> [s \in StageNames |->
                              IF s = "stem" THEN stem ELSE d[s]]]

\* The object the constructor leaves behind: an assertion that fails leaves
\* the attributes set so far.
Darknet_init(depth, in_channels, stem_out_channels, ofs) ==
    IF ~Truthy(ofs)
    THEN [status |-> "failed", out_features |-> <<>>, stages |-> NoStages]
    ELSE LET stem == Darknet_stem(in_channels, stem_out_channels)
             onlyStem == [NoStages EXCEPT !["stem"] = stem]
         IN IF ~(depth = 21 \/ depth = 53)
            THEN [status |-> "failed", out_features |-> ofs, stages |-> onlyStem]
            ELSE LET d == Darknet_dark(stem_out_channels * 2, depth2blocks[depth])
                 IN [status |-> "built", out_features |-> ofs,
                     stages |-> [s \in StageNames |->
                                   IF s = "stem" THEN stem ELSE d[s]]]

(* ---------------------------- CSPDarknet.__init__ ---------------------- *)

\* int(): truncation toward zero of num/den, for num >= 0 and den > 0
PyInt(num, den) == num \div den

\* round(): nearest integer of num/den, ties to the even neighbour
PyRound(num, den) ==
    LET q == num \div den
        r == num % den
    IN IF 2 * r < den THEN q
       ELSE IF 2 * r > den THEN q + 1
       ELSE IF q % 2 = 0 THEN q ELSE q + 1

\* mutant: round() in place of int()
base_channels_rounded(width_milli) == PyRound(width_milli * 64, 1000)

base_channels(width_milli) == PyInt(width_milli * 64, 1000)

\* mutant: the lower limit of 1 left out
base_depth_nomax(depth_milli) == PyRound(depth_milli * 3, 1000)

base_depth(depth_milli) == Max(PyRound(depth_milli * 3, 1000), 1)

\* mutant: the convolution of dark4 declared with stride 1
CSPDarknet_stages_stride(bc, bd, act, depthwise) ==
    [stem  |-> <<Focus(3, bc, 3, act)>>,
     dark2 |-> <<BaseConv(bc, bc * 2, 3, 2, act),
                 CSPLayer(bc * 2, bc * 2, bd, TRUE, depthwise, act)>>,
     dark3 |-> <<BaseConv(bc * 2, bc * 4, 3, 2, act),
                 CSPLayer(bc * 4, bc * 4, bd * 3, TRUE, depthwise, act)>>,
     dark4 |-> <<BaseConv(bc * 4, bc * 8, 3, 1, act),
                 CSPLayer(bc * 8, bc * 8, bd * 3, TRUE, depthwise, act)>>,
     dark5 |-> <<BaseConv(bc * 8, bc * 16, 3, 2, act),
                 SPPBottleneck(bc * 16, bc * 16, act),
                 CSPLayer(bc * 16, bc * 16, bd, FALSE, depthwise, act)>>]

CSPDarknet_stages(bc, bd, act, depthwise) ==
    [stem  |-> <<Focus(3, bc, 3, act)>>,
     dark2 |-> <<BaseConv(bc, bc * 2, 3, 2, act),
                 CSPLayer(bc * 2, bc * 2, bd, TRUE, depthwise, act)>>,
     dark3 |-> <<BaseConv(bc * 2, bc * 4, 3, 2, act),
                 CSPLayer(bc * 4, bc * 4, bd * 3, TRUE, depthwise, act)>>,
     dark4 |-> <<BaseConv(bc * 4, bc * 8, 3, 2, act),
                 CSPLayer(bc * 8, bc * 8, bd * 3, TRUE, depthwise, act)>>,
     dark5 |-> <<BaseConv(bc * 8, bc * 16, 3, 2, act),
                 SPPBottleneck(bc * 16, bc * 16, act),
                 CSPLayer(bc * 16, bc * 16, bd, FALSE, depthwise, act)>>]

\* mutant: a request naming something that is no stage is rejected
CSPDarknet_init_validating(depth_milli, width_milli, ofs, act, depthwise) ==
    IF ~Truthy(ofs) \/ \E i \in DOMAIN ofs : ofs[i] \notin StageNames
    THEN [status |-> "failed", out_features |-> <<>>, stages |-> NoStages]
    ELSE [status |-> "built", out_features |-> ofs,
          stages |-> CSPDarknet_stages(base_channels(width_milli),
                                       base_depth(depth_milli), act, depthwise)]

CSPDarknet_init(depth_milli, width_milli, ofs, act, depthwise) ==
    IF ~Truthy(ofs)
    THEN [status |-> "failed", out_features |-> <<>>, stages |-> NoStages]
    ELSE [status |-> "built", out_features |-> ofs,
          stages |-> CSPDarknet_stages(base_channels(width_milli),
                                       base_depth(depth_milli), act, depthwise)]

(* ---------------------------- forward ----------------------------------- *)

\* the statements of forward, in order: each runs one stage on x and
\* records the result under the stage's name
Darknet_forward_order == <<"stem", "dark2", "dark3", "dark4", "dark5">>

\* mutant: the evaluation returns after dark4
CSPDarknet_forward_order_short == <<"stem", "dark2", "dark3", "dark4">>

CSPDarknet_forward_order == <<"stem", "dark2", "dark3", "dark4", "dark5">>

\* `k in self.out_features` for a tuple
InTuple(k, t) == \E i \in DOMAIN t : t[i] = k

\* mutant: only the first requested name is looked at
Darknet_forward_filter_first(outs, ofs) ==
    LET keep(e) == e.name = ofs[1] IN SelectSeq(outs, keep)

\* {k: v for k, v in outputs.items() if k in self.out_features}: the
\* recorded entries, in insertion order, whose key is requested
Darknet_forward_filter(outs, ofs) ==
    LET keep(e) == InTuple(e.name, ofs) IN SelectSeq(outs, keep)

CSPDarknet_forward_filter(outs, ofs) ==
    LET keep(e) == InTuple(e.name, ofs) IN SelectSeq(outs, keep)

\* position of the statement that runs stage s
IndexOf(order, s) == CHOOSE i \in DOMAIN order : order[i] = s

\* the position after the i-th statement of forward
AfterStatement(order, i) == IF i < Len(order) THEN order[i + 1] ELSE "return"

\* outputs[name] = x: a dict keeps one entry per key, at the place of the
\* key's first insertion
DictSet(outs, name, value) ==
    IF \E i \in DOMAIN outs : outs[i].name = name
    THEN [i \in DOMAIN outs |->
            IF outs[i].name = name THEN [name |-> name, value |-> value]
            ELSE outs[i]]
    ELSE Append(outs, [name |-> name, value |-> value])

(* ---------------------------- state ------------------------------------ *)

NoArgs ==
    [depth |-> 0, in_channels |-> 0, stem_out_channels |-> 0,
     depth_multiplier |-> 0, width_multiplier |-> 0, act |-> "",
     depthwise |-> FALSE, out_features |-> <<>>]

Init ==
    /\ cls = "none"
    /\ status = "new"
    /\ args = NoArgs
    /\ out_features = <<>>
    /\ stages = NoStages
    /\ pc = "idle"
    /\ input = NoTensor
    /\ x = NoTensor
    /\ outputs = <<>>
    /\ result = <<>>

\* Darknet(depth, in_channels, stem_out_channels, out_features)
Darknet_new(depth, in_channels, stem_out_channels, ofs) ==
    /\ status = "new"
    /\ LET r == Darknet_init(depth, in_channels, stem_out_channels, ofs)
       IN /\ status' = r.status
          /\ out_features' = r.out_features
          /\ stages' = r.stages
    /\ cls' = "Darknet"
    /\ args' = [NoArgs EXCEPT !.depth = depth, !.in_channels = in_channels,
                              !.stem_out_channels = stem_out_channels,
                              !.act = "lrelu", !.out_features = ofs]
    /\ UNCHANGED <<pc, input, x, outputs, result>>

\* CSPDarknet(depth_multiplier, width_multiplier, out_features, act, depthwise)
CSPDarknet_new(depth_milli, width_milli, ofs, act, depthwise) ==
    /\ status = "new"
    /\ LET r == CSPDarknet_init(depth_milli, width_milli, ofs, act, depthwise)
       IN /\ status' = r.status
          /\ out_features' = r.out_features
          /\ stages' = r.stages
    /\ cls' = "CSPDarknet"
    /\ args' = [NoArgs EXCEPT !.in_channels = 3,
                              !.depth_multiplier = depth_milli,
                              !.width_multiplier = width_milli,
                              !.act = act, !.depthwise = depthwise,
                              !.out_features = ofs]
    /\ UNCHANGED <<pc, input, x, outputs, result>>

\* a call of forward on a constructed network, with a tensor of the
\* network's input channel count
forward_call(c, size) ==
    /\ status = "built"
    /\ pc \in {"idle", "done"}
    /\ c = args.in_channels
    /\ input' = [c |-> c, h |-> size[1], w |-> size[2]]
    /\ x' = input'
    /\ outputs' = <<>>
    /\ result' = <<>>
    /\ UNCHANGED <<cls, status, args, out_features, stages>>

\* x = self.<stage>(x); outputs["<stage>"] = x
forward_stage(order) ==
    /\ pc \in StageNames
    /\ LET y == ApplySequential(stages[pc], x)
       IN /\ x' = y
          /\ IF y = ShapeError
             THEN pc' = "error" /\ UNCHANGED outputs
             ELSE /\ pc' = AfterStatement(order, IndexOf(order, pc))
                  /\ outputs' = DictSet(outputs, pc, y)
    /\ UNCHANGED <<cls, status, args, out_features, stages, input, result>>

Darknet_forward_call ==
    /\ cls = "Darknet"
    /\ \E c \in InChannelChoices, size \in InputSizes : forward_call(c, size)
    /\ pc' = Darknet_forward_order[1]

Darknet_forward_stage ==
    /\ cls = "Darknet"
    /\ forward_stage(Darknet_forward_order)

Darknet_forward_return ==
    /\ cls = "Darknet"
    /\ pc = "return"
    /\ result' = Darknet_forward_filter(outputs, out_features)
    /\ pc' = "done"
    /\ UNCHANGED <<cls, status, args, out_features, stages, input, x, outputs>>

CSPDarknet_forward_call ==
    /\ cls = "CSPDarknet"
    /\ \E size \in InputSizes : forward_call(3, size)
    /\ pc' = CSPDarknet_forward_order[1]

CSPDarknet_forward_stage ==
    /\ cls = "CSPDarknet"
    /\ forward_stage(CSPDarknet_forward_order)

CSPDarknet_forward_return ==
    /\ cls = "CSPDarknet"
    /\ pc = "return"
    /\ result' = CSPDarknet_forward_filter(outputs, out_features)
    /\ pc' = "done"
    /\ UNCHANGED <<cls, status, args, out_features, stages, input, x, outputs>>

Darknet_construct ==
    \E depth \in DepthChoices, ic \in InChannelChoices, s \in StemChoices,
       ofs \in OutFeatureChoices : Darknet_new(depth, ic, s, ofs)

CSPDarknet_construct ==
    \E dm \in DepthMultChoices, wm \in WidthChoices, ofs \in OutFeatureChoices,
       act \in ActChoices, dw \in BOOLEAN : CSPDarknet_new(dm, wm, ofs, act, dw)

Next ==
    \/ Darknet_construct
    \/ CSPDarknet_construct
    \/ Darknet_forward_call
    \/ Darknet_forward_stage
    \/ Darknet_forward_return
    \/ CSPDarknet_forward_call
    \/ CSPDarknet_forward_stage
    \/ CSPDarknet_forward_return

Spec == Init /\ [][Next]_vars

(* ---------------- the multipliers, swept over their whole range -------- *)

WidthSweep ==
    \E wm \in 1..MaxWidthMilli :
        CSPDarknet_new(1000, wm, DefaultOutFeatures, "silu", FALSE)

DepthSweep ==
    \E dm \in 0..MaxDepthMilli :
        CSPDarknet_new(dm, 1000, DefaultOutFeatures, "silu", FALSE)

NextSweep == WidthSweep \/ DepthSweep

SpecSweep == Init /\ [][NextSweep]_vars

(* ======================================================================= *)
(* Properties                                                              *)
(* ======================================================================= *)

Built == status = "built"

BothOrder == <<"stem", "dark2", "dark3", "dark4", "dark5">>

\* output channel count of a stage: that of its last block
OutCh(s) == stages[s][Len(stages[s])].cout

Transitions ==
    {<<"stem", "dark2">>, <<"dark2", "dark3">>, <<"dark3", "dark4">>,
     <<"dark4", "dark5">>}

AllBlocks ==
    stages["stem"] \o stages["dark2"] \o stages["dark3"] \o stages["dark4"]
        \o stages["dark5"]

Keys(m) == {m[i].name : i \in DOMAIN m}

Range(t) == {t[i] : i \in DOMAIN t}

Abs(a) == IF a < 0 THEN -a ELSE a

\* C1 as stated: in every constructed network of either variant, each of
\* dark2..dark5 outputs exactly twice the channels of the stage before it.
C1_DoublesAtEveryTransition ==
    Built => \A t \in Transitions : OutCh(t[2]) = 2 * OutCh(t[1])

\* C1 (amended): every stage dark2..dark5 opens with a stride-2 convolution
\* that takes the previous stage's output and doubles its channel count; the
\* stage output is twice the previous stage's for all four transitions of
\* CSPDarknet and for dark2, dark3, dark4 of Darknet, while Darknet's dark5,
\* which ends with the SPP sub-block, outputs as many channels as dark4.
C1_DoublingAmended ==
    Built =>
        /\ \A t \in Transitions :
              LET first == stages[t[2]][1]
              IN /\ first.kind = "BaseConv" /\ first.stride = 2
                 /\ first.cin = OutCh(t[1])
                 /\ first.cout = 2 * first.cin
        /\ \A t \in Transitions \ {<<"dark4", "dark5">>} :
              OutCh(t[2]) = 2 * OutCh(t[1])
        /\ cls = "CSPDarknet" => OutCh("dark5") = 2 * OutCh("dark4")
        /\ cls = "Darknet" =>
              /\ OutCh("dark5") = OutCh("dark4")
              /\ OutCh("dark5") = 16 * args.stem_out_channels

C1_Witness ==
    /\ Built /\ cls = "Darknet" /\ args.stem_out_channels = 32
    /\ OutCh("stem") = 64 /\ OutCh("dark4") = 512 /\ OutCh("dark5") = 512

\* the filter of the class of the constructed network
ClassFilter(outs, ofs) ==
    IF cls = "Darknet" THEN Darknet_forward_filter(outs, ofs)
    ELSE CSPDarknet_forward_filter(outs, ofs)

Reorderings(t) ==
    {[i \in DOMAIN t |-> t[f[i]]] : f \in Permutations(DOMAIN t)}

\* C2: a returned mapping's key set is exactly the stage names that are
\* requested, and filtering the same recorded outputs by any reordering of
\* the request gives the same key set.
C2_KeysAreIntersection ==
    pc = "done" =>
        /\ Keys(result) = StageNames \cap Range(out_features)
        /\ \A p \in Reorderings(out_features) :
              Keys(ClassFilter(outputs, p)) = Keys(result)

C2_Witness ==
    /\ pc = "done" /\ cls = "Darknet"
    /\ out_features = <<"fpn", "dark2">>
    /\ Keys(result) = {"dark2"}

\* C3 as stated: the stem's output channel count is 64*w rounded to the
\* nearest integer.
C3_BaseChannelsRounded ==
    (cls = "CSPDarknet" /\ Built) =>
        2 * Abs(1000 * stages["stem"][1].cout - 64 * args.width_multiplier)
            <= 1000

\* C3 (amended): the stem's output channel count is 64*w truncated to an
\* integer: the largest integer not above 64*w.
C3_BaseChannelsTruncated ==
    (cls = "CSPDarknet" /\ Built) =>
        LET bc == stages["stem"][1].cout
        IN /\ 1000 * bc <= 64 * args.width_multiplier
           /\ 64 * args.width_multiplier < 1000 * (bc + 1)
           /\ stages["dark2"][1].cin = bc

C3_Witness ==
    /\ cls = "CSPDarknet" /\ Built
    /\ args.width_multiplier = 40
    /\ stages["stem"][1].cout = 2

\* C4: base_depth is the integer nearest to 3*d, raised to 1 when that is
\* below 1, so it is at least 1; the CSP blocks of dark2 and dark5 repeat
\* base_depth times and those of dark3 and dark4 three times as often.
C4_BaseDepth ==
    (cls = "CSPDarknet" /\ Built) =>
        LET bd == stages["dark2"][2].n
            d3 == 3 * args.depth_multiplier
        IN /\ bd >= 1
           /\ \/ 2 * Abs(1000 * bd - d3) <= 1000
              \/ bd = 1 /\ 2 * d3 < 1000
           /\ stages["dark2"][2].kind = "CSPLayer"
           /\ stages["dark3"][2].kind = "CSPLayer"
           /\ stages["dark3"][2].n = 3 * bd
           /\ stages["dark4"][2].kind = "CSPLayer"
           /\ stages["dark4"][2].n = 3 * bd
           /\ stages["dark5"][3].kind = "CSPLayer"
           /\ stages["dark5"][3].n = bd

C4_Witness ==
    /\ cls = "CSPDarknet" /\ Built
    /\ args.depth_multiplier = 100
    /\ stages["dark2"][2].n = 1 /\ stages["dark3"][2].n = 3

\* C5: a construction with an empty requested-output tuple fails, and leaves
\* no stage on the object, whatever the other arguments are.
C5_EmptyRequestFailsFirst ==
    (cls # "none" /\ args.out_features = <<>>) =>
        /\ status = "failed"
        /\ \A s \in StageNames : stages[s] = <<>>

C5_Witness ==
    /\ cls = "Darknet" /\ args.depth = 40 /\ args.out_features = <<>>
    /\ status = "failed" /\ stages = NoStages

ResCount(s) ==
    Cardinality({i \in DOMAIN stages[s] : stages[s][i].kind = "ResLayer"})

ResCounts == <<ResCount("dark2"), ResCount("dark3"), ResCount("dark4"),
               ResCount("dark5")>>

\* C6: a constructed Darknet has depth 21 or 53 and its stages dark2..dark5
\* hold 1,2,2,1 resp. 2,8,8,4 residual blocks; with any other depth the
\* construction fails and the object lacks at least one of the five stages.
C6_DepthTable ==
    (cls = "Darknet") =>
        /\ Built => /\ args.depth \in {21, 53}
                    /\ args.depth = 21 => ResCounts = <<1, 2, 2, 1>>
                    /\ args.depth = 53 => ResCounts = <<2, 8, 8, 4>>
        /\ args.depth \notin {21, 53} =>
              /\ status = "failed"
              /\ \E s \in StageNames : stages[s] = <<>>

C6_Witness ==
    /\ cls = "Darknet" /\ args.depth = 40 /\ Truthy(args.out_features)
    /\ status = "failed" /\ stages["stem"] # <<>> /\ stages["dark2"] = <<>>

\* C7: CSPDarknet(1.0, 1.0) with the outputs dark3, dark4, dark5 maps a
\* 3x640x640 input to exactly three feature maps: 256x80x80, 512x40x40 and
\* 1024x20x20.
C7_EndToEnd ==
    ( /\ cls = "CSPDarknet" /\ pc = "done"
      /\ args.width_multiplier = 1000 /\ args.depth_multiplier = 1000
      /\ out_features = <<"dark3", "dark4", "dark5">>
      /\ input = [c |-> 3, h |-> 640, w |-> 640] ) =>
        result = << [name |-> "dark3", value |-> [c |-> 256, h |-> 80, w |-> 80]],
                    [name |-> "dark4", value |-> [c |-> 512, h |-> 40, w |-> 40]],
                    [name |-> "dark5", value |-> [c |-> 1024, h |-> 20, w |-> 20]] >>

C7_Witness ==
    /\ cls = "CSPDarknet" /\ pc = "done"
    /\ args.width_multiplier = 1000 /\ args.depth_multiplier = 1000
    /\ out_features = <<"dark3", "dark4", "dark5">>
    /\ input = [c |-> 3, h |-> 640, w |-> 640]
    /\ Len(result) = 3

\* C8: in the block list of a constructed network, stage after stage, every
\* block's declared input channel count is the declared output channel count
\* of the block before it, and the first block takes the network's input
\* channel count (3 for CSPDarknet).
C8_Wiring ==
    Built =>
        /\ \A i \in 2..Len(AllBlocks) : AllBlocks[i].cin = AllBlocks[i - 1].cout
        /\ AllBlocks[1].cin = IF cls = "Darknet" THEN args.in_channels ELSE 3

C8_Witness ==
    /\ Built /\ cls = "Darknet" /\ args.depth = 53
    /\ Len(AllBlocks) = 34
    /\ AllBlocks[30].kind = "BaseConv" /\ AllBlocks[32].kind = "SPPBottleneck"

\* C9: during every forward evaluation the recorded outputs are the stages
\* in the order stem, dark2, dark3, dark4, dark5, one entry each; the stage
\* about to run is the next one of that order; each recorded output is its
\* stage applied to the previous recorded output (the input for stem); the
\* evaluation returns only once all five are recorded, and nothing is
\* returned before.
C9_AllStagesInOrder ==
    Built =>
        /\ pc # "error"
        /\ Len(outputs) <= 5
        /\ \A i \in DOMAIN outputs :
              /\ outputs[i].name = BothOrder[i]
              /\ outputs[i].value =
                    ApplySequential(stages[BothOrder[i]],
                                    IF i = 1 THEN input ELSE outputs[i - 1].value)
        /\ pc \in StageNames => pc = BothOrder[Len(outputs) + 1]
        /\ pc \in {"return", "done"} => Len(outputs) = 5
        /\ pc # "done" => result = <<>>

C9_Witness ==
    /\ pc = "done" /\ cls = "CSPDarknet" /\ out_features = <<"stem">>
    /\ Len(outputs) = 5 /\ Keys(result) = {"stem"}

\* C10: a non-empty request that names no stage at all is accepted by both
\* constructors (Darknet: with depth 21 or 53), and an evaluation of such a
\* network records all five stages and returns the empty mapping.
C10_UnknownNamesAccepted ==
    ( /\ cls # "none" /\ Truthy(args.out_features)
      /\ Range(args.out_features) \cap StageNames = {}
      /\ cls = "Darknet" => args.depth \in {21, 53} ) =>
        /\ Built
        /\ out_features = args.out_features
        /\ pc # "error"
        /\ pc = "done" => (result = <<>> /\ Keys(outputs) = StageNames)

C10_Witness ==
    /\ cls = "CSPDarknet" /\ Built /\ out_features = <<"fpn">>
    /\ pc = "done" /\ result = <<>> /\ Len(outputs) = 5

====
